---- MODULE Spec2Model ----
(***************************************************************************)
(* Sales bonus analyzer (bonus_app_streamlit.py / bonus_app_streamlit2.py)  *)
(* as a state machine: find_header_row scans the sheet row by row,          *)
(* analyze_workbook scans the data rows below the header, sums the line     *)
(* items of each invoice, calculate_transaction_bonuses visits every        *)
(* (employee, day) and build_report_text renders the result.                *)
(*                                                                         *)
(* Conventions of the model                                                *)
(*  - A cell is a record [kind, s, v, m]:                                   *)
(*      kind "none"      an empty cell (None)                               *)
(*      kind "str"       text; s is the text as a sequence of tokens, the   *)
(*                       token " " being whitespace                         *)
(*      kind "num"       int/float; v is the number in hundredths           *)
(*      kind "datetime"  datetime.datetime; v the day, m the minute of it   *)
(*      kind "time"      datetime.time, a value of another type             *)
(*  - Numbers are counted in hundredths (Whole(150) is 150.00), so that     *)
(*    150.01 is a value of the model.  Bonus amounts are whole units.       *)
(*  - A calendar date is the number of days since 1899-12-30 (the Excel     *)
(*    serial day from 1900-03-01 on).                                       *)
(*  - The Hebrew column labels are written in English:                      *)
(*      "invoice" = "מספר חשבונית", "employee" = "מוכרן", "date" = "תאריך",     *)
(*      "unit_price" = "מחיר נטו ליחידה", "quantity" = "כמות".                  *)
(***************************************************************************)
EXTENDS Integers, Sequences, FiniteSets, TLC

VARIABLES
    pc,                 \* where the program is
    error,              \* the exception that ended the run, "" when none
    scan,               \* rows consumed by find_header_row's iterator
    header,             \* the cells of the sheet's header row
    header_row,         \* find_header_row's row index (1-based), 0 before
    col_idx,            \* label -> column index (0-based), NoCol for None
    data,               \* rows consumed by analyze_workbook's iterator
    per_invoice,        \* insertion-ordered: [emp, date, invoice, lines]
    daily_totals,       \* insertion-ordered: [emp, date, totals]
    transactions_count, \* insertion-ordered: [emp, date, cnt]
    k,                  \* (employee, day) pairs visited by the bonus loop
    day,                \* the (employee, day) the bonus loop visited last
    bonuses,            \* employee -> total bonus (entries exist once added)
    details,            \* employee -> category -> amount
    report              \* build_report_text's lines

vars == <<pc, error, scan, header, header_row, col_idx, data, per_invoice,
          daily_totals, transactions_count, k, day, bonuses, details, report>>

---------------------------------------------------------------------------
\* Bounds of the model

\* rows find_header_row may read before the sheet ends
MaxScan == 2
\* data rows below the header
MaxRows == 3
\* (employee, day) pairs of a direct call of calculate_transaction_bonuses
MaxDirectDays == 1
\* transaction totals of one (employee, day) of a direct call
MaxTotals == 2

---------------------------------------------------------------------------
\* Program constants

BONUS_OVER_400 == 20
BONUS_OVER_700 == 10
BONUS_AVG_130 == 20
BONUS_AVG_140 == 25
BONUS_AVG_150 == 35

QUANTITY_COL_NAME == <<"quantity">>

REQUIRED_COLS == << <<"invoice">>, <<"employee">>, <<"date">>, <<"unit_price">> >>

\* col_idx[QUANTITY_COL_NAME] = None
NoCol == -1

CAT_400 == "over_400"
CAT_700 == "over_700"
CAT_AVG == "average"

---------------------------------------------------------------------------
\* Cell values

Whole(n) == n * 100

NoneCell == [kind |-> "none", s |-> <<>>, v |-> 0, m |-> 0]
Str(toks) == [kind |-> "str", s |-> toks, v |-> 0, m |-> 0]
Num(hundredths) == [kind |-> "num", s |-> <<>>, v |-> hundredths, m |-> 0]
DateTime(d, minute) == [kind |-> "datetime", s |-> <<>>, v |-> d, m |-> minute]
TimeCell == [kind |-> "time", s |-> <<>>, v |-> 0, m |-> 0]

\* Python truthiness of a cell value
Truthy(c) ==
    CASE c.kind = "none" -> FALSE
      [] c.kind = "str" -> Len(c.s) > 0
      [] c.kind = "num" -> c.v # 0
      [] OTHER -> TRUE

RECURSIVE LStrip(_)
LStrip(toks) ==
    IF toks # <<>> /\ Head(toks) = " " THEN LStrip(Tail(toks)) ELSE toks

RECURSIVE RStrip(_)
RStrip(toks) ==
    IF toks # <<>> /\ toks[Len(toks)] = " "
    THEN RStrip(SubSeq(toks, 1, Len(toks) - 1))
    ELSE toks

\* str.strip()
Strip(toks) == RStrip(LStrip(toks))

\* str(value) of a cell that is not None
StrOf(c) ==
    CASE c.kind = "str" -> c.s
      [] c.kind = "num" -> <<"<number>">>
      [] c.kind = "datetime" -> <<"<date>", " ", "<time>">>
      [] OTHER -> <<"<time>">>

---------------------------------------------------------------------------
\* find_header_row

\* the col_idx of one row: the loop over enumerate(row), a later cell with the
\* same key overwriting an earlier one
RECURSIVE BuildColIdx(_, _, _)
BuildColIdx(row, i, acc) ==
    IF i >= Len(row) THEN acc
    ELSE LET value == row[i + 1]
             key == Strip(StrOf(value))
         IN  IF value.kind = "none" \/ key = <<>>
             THEN BuildColIdx(row, i + 1, acc)
             ELSE BuildColIdx(row, i + 1,
                      [x \in (DOMAIN acc) \cup {key} |->
                          IF x = key THEN i ELSE acc[x]])

EmptyMap == [x \in {} |-> 0]

RowColIdx(row) == BuildColIdx(row, 0, EmptyMap)

\* a variant that accepts a row holding any of the required labels
IsHeaderAny(cols, required_cols) ==
    /\ DOMAIN cols # {}
    /\ \E j \in 1..Len(required_cols) : required_cols[j] \in DOMAIN cols

\* if col_idx and all(col in col_idx for col in required_cols)
IsHeader(cols, required_cols) ==
    /\ DOMAIN cols # {}
    /\ \A j \in 1..Len(required_cols) : required_cols[j] \in DOMAIN cols

\* rows a sheet may hold at or above its header
H_blank == <<NoneCell, NoneCell, NoneCell, NoneCell, NoneCell, NoneCell>>
H_title == <<Str(<<"Sales", " ", "report">>), Str(<<" ">>), TimeCell,
             NoneCell, Str(<<>>), NoneCell>>
H_partial == <<Str(<<"invoice">>), Str(<<"employee">>), Str(<<"date">>),
               NoneCell, Str(<<"quantity">>), Num(Whole(7))>>
H_std == <<Str(<<"invoice">>), Str(<<"employee">>), Str(<<"date">>),
           Str(<<"unit_price">>), Str(<<"quantity">>), NoneCell>>
H_noqty == <<Str(<<"notes">>), Str(<<"invoice">>), Str(<<"employee">>),
             Str(<<"date">>), Str(<<"unit_price">>), NoneCell>>
H_messy == <<Str(<<"date">>), Str(<<" ", "unit_price", " ">>),
             Str(<<"quantity", " ">>), Str(<<" ", " ", "employee">>),
             Str(<<"date", " ">>), Str(<<"invoice">>)>>

HeaderRowSet == {H_blank, H_title, H_partial, H_std, H_noqty, H_messy}

---------------------------------------------------------------------------
\* Date normalisation

\* the date texts of the model and what datetime.strptime reads in them
DmyDay == ("15/01/2024" :> 45306) @@ ("16/01/2024" :> 45307)
YmdDay == ("2024-01-15" :> 45306) @@ ("2024-01-16" :> 45307)
HmMinute == ("10:30" :> 630) @@ ("00:00" :> 0)

Parsed(d) == [ok |-> TRUE, date |-> d]
ValueError == [ok |-> FALSE, date |-> 0]

\* datetime.strptime(date_str, fmt).date(): the whole text has to match fmt,
\* a blank of the format matching one or more blanks of the text
Strptime(date_str, fmt) ==
    LET n == Len(date_str)
    IN  CASE fmt = "%d/%m/%Y %H:%M" ->
                 IF /\ n >= 3
                    /\ date_str[1] \in DOMAIN DmyDay
                    /\ \A j \in 2..(n - 1) : date_str[j] = " "
                    /\ date_str[n] \in DOMAIN HmMinute
                 THEN Parsed(DmyDay[date_str[1]])
                 ELSE ValueError
          [] fmt = "%Y-%m-%d" ->
                 IF n = 1 /\ date_str[1] \in DOMAIN YmdDay
                 THEN Parsed(YmdDay[date_str[1]])
                 ELSE ValueError
          [] OTHER ->
                 IF n = 1 /\ date_str[1] \in DOMAIN DmyDay
                 THEN Parsed(DmyDay[date_str[1]])
                 ELSE ValueError

DATE_FORMATS == <<"%d/%m/%Y %H:%M", "%Y-%m-%d", "%d/%m/%Y">>

\* what the date step of a row ends in
IsDate(d) == [tag |-> "date", date |-> d]
IsNone == [tag |-> "none", date |-> 0]
Raises(exc) == [tag |-> exc, date |-> 0]

RECURSIVE TryFormats(_, _)
TryFormats(date_str, j) ==
    IF j > Len(DATE_FORMATS) THEN IsNone
    ELSE LET r == Strptime(date_str, DATE_FORMATS[j])
         IN  IF r.ok THEN IsDate(r.date) ELSE TryFormats(date_str, j + 1)

parse_date(date_str) == TryFormats(date_str, 1)

\* openpyxl's from_excel(value) followed by .date(): a serial in [0, 1) comes
\* back as a datetime.time, which has no date(); a serial past 9999-12-31
\* overflows; serials of the first 60 days are shifted by one (1900 is no
\* leap year)
FromExcelDate(value) ==
    IF 0 <= value /\ value < Whole(1) THEN Raises("AttributeError")
    ELSE IF value >= Whole(2958466) THEN Raises("OverflowError")
    ELSE IF 0 < value /\ value < Whole(60) THEN IsDate((value \div 100) + 1)
    ELSE IsDate(value \div 100)

\* lines 120-127 of analyze_workbook
NormalizeDate(date_raw) ==
    CASE date_raw.kind = "datetime" -> IsDate(date_raw.v)
      [] date_raw.kind = "num" -> FromExcelDate(date_raw.v)
      [] date_raw.kind = "str" -> parse_date(date_raw.s)
      [] OTHER -> IsNone

---------------------------------------------------------------------------
\* The data rows of the model

A == Str(<<"A">>)
B == Str(<<"B">>)
Day1 == DmyDay["15/01/2024"]
Day2 == DmyDay["16/01/2024"]

Rec(invoice, emp, date_raw, unit, qty) ==
    [invoice |-> invoice, employee |-> emp, date |-> date_raw,
     unit_price |-> unit, quantity |-> qty]

\* line items: invoice id, employee, raw date, unit price, quantity.  Unit
\* prices and quantities are numbers or empty.
RecSet ==
    { Rec(Num(Whole(1)), A, DateTime(Day1, 630), Num(Whole(100)), Num(Whole(2))),
      Rec(Num(Whole(1)), A, DateTime(Day1, 660), Num(Whole(50)), Num(Whole(1))),
      Rec(Num(Whole(2)), A, DateTime(Day1, 0), Num(Whole(800)), Num(Whole(1))),
      Rec(Num(Whole(1)), B, Num(Whole(Day2) + 50), Num(Whole(500)), NoneCell),
      Rec(Num(Whole(2)), A, Str(<<"16/01/2024", " ", "10:30">>),
          Num(Whole(750)), Num(0)),
      Rec(Num(Whole(2)), B, Str(<<"2024-01-15">>), Num(Whole(350)),
          Num(Whole(2))),
      Rec(NoneCell, A, Str(<<"15/01/2024">>), Num(Whole(400)), NoneCell),
      Rec(Num(Whole(1)), A, Str(<<"15.01.2024">>), Num(Whole(100)),
          Num(Whole(1))),
      Rec(Num(Whole(1)), NoneCell, DateTime(Day1, 630), Num(Whole(100)),
          Num(Whole(1))),
      Rec(Num(Whole(1)), B, NoneCell, Num(Whole(900)), Num(Whole(1))),
      Rec(Num(Whole(1)), A, DateTime(Day1, 630), NoneCell, Num(Whole(2))),
      Rec(Num(Whole(2)), NoneCell, Num(50), Num(Whole(100)), Num(Whole(1))) }

FIELD_LABELS == REQUIRED_COLS \o <<QUANTITY_COL_NAME>>

\* the row of a line item in a sheet whose header row is labels: each field
\* sits under the last column that carries its label; every other column
\* is empty
Layout(labels, rec) ==
    [c \in 1..Len(labels) |->
        LET key == Strip(StrOf(labels[c]))
        IN  IF /\ labels[c].kind # "none"
               /\ \E j \in 1..Len(FIELD_LABELS) : FIELD_LABELS[j] = key
               /\ \A c2 \in (c + 1)..Len(labels) :
                      labels[c2].kind = "none" \/ Strip(StrOf(labels[c2])) # key
            THEN rec[key[1]]
            ELSE NoneCell]

---------------------------------------------------------------------------
\* analyze_workbook: the scan of the data rows

RECURSIVE SumSeq(_)
SumSeq(xs) == IF xs = <<>> THEN 0 ELSE Head(xs) + SumSeq(Tail(xs))

\* unit * qty, both numbers in hundredths
Times(unit, qty) == (unit.v * qty.v) \div 100

\* a variant that opens a new transaction for every line item
AppendLineUngrouped(groups, emp, date, invoice, line_total) ==
    Append(groups, [emp |-> emp, date |-> date, invoice |-> invoice,
                    lines |-> <<line_total>>])

\* per_invoice[emp][(date, invoice)].append(line_total)
AppendLine(groups, emp, date, invoice, line_total) ==
    IF \E j \in 1..Len(groups) :
           groups[j].emp = emp /\ groups[j].date = date /\ groups[j].invoice = invoice
    THEN [j \in 1..Len(groups) |->
             IF groups[j].emp = emp /\ groups[j].date = date
                /\ groups[j].invoice = invoice
             THEN [groups[j] EXCEPT !.lines = Append(@, line_total)]
             ELSE groups[j]]
    ELSE Append(groups, [emp |-> emp, date |-> date, invoice |-> invoice,
                         lines |-> <<line_total>>])

\* a variant without the "or 1"
QuantityAsIs(cols, row) ==
    IF cols[QUANTITY_COL_NAME] # NoCol
    THEN IF row[cols[QUANTITY_COL_NAME] + 1].kind = "none"
         THEN Num(0)
         ELSE row[cols[QUANTITY_COL_NAME] + 1]
    ELSE Num(Whole(1))

\* the quantity of a row
Quantity(cols, row) ==
    IF cols[QUANTITY_COL_NAME] # NoCol
    THEN IF Truthy(row[cols[QUANTITY_COL_NAME] + 1])
         THEN row[cols[QUANTITY_COL_NAME] + 1]
         ELSE Num(Whole(1))
    ELSE Num(Whole(1))

\* one pass of the loop over the data rows: the exception it raises ("" when
\* none) and per_invoice after it
ScanRow(groups, cols, row) ==
    LET invoice == row[cols[<<"invoice">>] + 1]
        emp == row[cols[<<"employee">>] + 1]
        date_raw == row[cols[<<"date">>] + 1]
        unit == row[cols[<<"unit_price">>] + 1]
        qty == Quantity(cols, row)
        date == NormalizeDate(date_raw)
    IN  IF date.tag \notin {"date", "none"}
        THEN [exc |-> date.tag, groups |-> groups]
        ELSE IF date.tag = "none"
        THEN [exc |-> "", groups |-> groups]
        ELSE IF Truthy(emp) /\ unit.kind # "none"
        THEN [exc |-> "",
              groups |-> AppendLine(groups, emp, date.date, invoice,
                                    Times(unit, qty))]
        ELSE [exc |-> "", groups |-> groups]

---------------------------------------------------------------------------
\* analyze_workbook: one transaction per invoice

\* the keys of a dict of dicts in iteration order: employees in the order of
\* their first entry
RECURSIVE EmpOrder(_, _)
EmpOrder(entries, seen) ==
    IF entries = <<>> THEN <<>>
    ELSE IF Head(entries).emp \in seen THEN EmpOrder(Tail(entries), seen)
    ELSE <<Head(entries).emp>>
             \o EmpOrder(Tail(entries), seen \cup {Head(entries).emp})

\* the entries of a dict of dicts in the order the nested loops visit them
RECURSIVE ByEmp(_, _)
ByEmp(entries, emps) ==
    IF emps = <<>> THEN <<>>
    ELSE SelectSeq(entries, LAMBDA g : g.emp = Head(emps))
             \o ByEmp(entries, Tail(emps))

Items(entries) == ByEmp(entries, EmpOrder(entries, {}))

\* daily_totals[emp][date].append(total)
AppendTotal(stats, emp, date, total) ==
    IF \E j \in 1..Len(stats) : stats[j].emp = emp /\ stats[j].date = date
    THEN [j \in 1..Len(stats) |->
             IF stats[j].emp = emp /\ stats[j].date = date
             THEN [stats[j] EXCEPT !.totals = Append(@, total)]
             ELSE stats[j]]
    ELSE Append(stats, [emp |-> emp, date |-> date, totals |-> <<total>>])

\* transactions_count[emp][date] += 1
Increment(counts, emp, date) ==
    IF \E j \in 1..Len(counts) : counts[j].emp = emp /\ counts[j].date = date
    THEN [j \in 1..Len(counts) |->
             IF counts[j].emp = emp /\ counts[j].date = date
             THEN [counts[j] EXCEPT !.cnt = @ + 1]
             ELSE counts[j]]
    ELSE Append(counts, [emp |-> emp, date |-> date, cnt |-> 1])

\* the loop over per_invoice
RECURSIVE SumInvoices(_, _, _)
SumInvoices(groups, stats, counts) ==
    IF groups = <<>> THEN [daily_totals |-> stats, transactions_count |-> counts]
    ELSE LET g == Head(groups)
         IN  SumInvoices(Tail(groups),
                         AppendTotal(stats, g.emp, g.date, SumSeq(g.lines)),
                         Increment(counts, g.emp, g.date))

\* transactions_count[emp][date]
CountOf(counts, emp, date) ==
    IF \E j \in 1..Len(counts) : counts[j].emp = emp /\ counts[j].date = date
    THEN LET j == CHOOSE j \in 1..Len(counts) :
                      counts[j].emp = emp /\ counts[j].date = date
         IN  counts[j].cnt
    ELSE 0

---------------------------------------------------------------------------
\* calculate_transaction_bonuses

\* bonuses[emp] += amount, on a defaultdict(float)
AddBonus(totals_by_emp, emp, amount) ==
    IF \E j \in 1..Len(totals_by_emp) : totals_by_emp[j].emp = emp
    THEN [j \in 1..Len(totals_by_emp) |->
             IF totals_by_emp[j].emp = emp
             THEN [totals_by_emp[j] EXCEPT !.amount = @ + amount]
             ELSE totals_by_emp[j]]
    ELSE Append(totals_by_emp, [emp |-> emp, amount |-> amount])

\* a variant that assigns the amount instead of adding it
AddCatAssign(cats, cat, amount) ==
    IF \E j \in 1..Len(cats) : cats[j].cat = cat
    THEN [j \in 1..Len(cats) |->
             IF cats[j].cat = cat
             THEN [cats[j] EXCEPT !.amount = amount]
             ELSE cats[j]]
    ELSE Append(cats, [cat |-> cat, amount |-> amount])

\* det[cat] += amount, on a defaultdict(float)
AddCat(cats, cat, amount) ==
    IF \E j \in 1..Len(cats) : cats[j].cat = cat
    THEN [j \in 1..Len(cats) |->
             IF cats[j].cat = cat
             THEN [cats[j] EXCEPT !.amount = @ + amount]
             ELSE cats[j]]
    ELSE Append(cats, [cat |-> cat, amount |-> amount])

\* details[emp][cat] += amount
AddDetail(cats_by_emp, emp, cat, amount) ==
    IF \E j \in 1..Len(cats_by_emp) : cats_by_emp[j].emp = emp
    THEN [j \in 1..Len(cats_by_emp) |->
             IF cats_by_emp[j].emp = emp
             THEN [cats_by_emp[j] EXCEPT !.cats = AddCat(@, cat, amount)]
             ELSE cats_by_emp[j]]
    ELSE Append(cats_by_emp,
                [emp |-> emp, cats |-> AddCat(<<>>, cat, amount)])

\* the two statements of one bonus
Award(acc, emp, cat, amount) ==
    [bonuses |-> AddBonus(acc.bonuses, emp, amount),
     details |-> AddDetail(acc.details, emp, cat, amount)]

\* total > 400
Over400(total) == total > Whole(400)

\* total > 700
Over700(total) == total > Whole(700)

\* a variant whose second test is an elif of the first
TotalBonusesElif(acc, emp, total) ==
    IF Over400(total) THEN Award(acc, emp, CAT_400, BONUS_OVER_400)
    ELSE IF Over700(total) THEN Award(acc, emp, CAT_700, BONUS_OVER_700)
    ELSE acc

\* one pass of the loop over the totals of a day
TotalBonuses(acc, emp, total) ==
    LET a1 == IF Over400(total)
              THEN Award(acc, emp, CAT_400, BONUS_OVER_400)
              ELSE acc
    IN  IF Over700(total)
        THEN Award(a1, emp, CAT_700, BONUS_OVER_700)
        ELSE a1

RECURSIVE TotalsLoop(_, _, _)
TotalsLoop(acc, emp, totals) ==
    IF totals = <<>> THEN acc
    ELSE TotalsLoop(TotalBonuses(acc, emp, Head(totals)), emp, Tail(totals))

\* a variant that compares with >=
AvgOverOrEqual(totals, cnt, limit) ==
    IF cnt # 0 THEN SumSeq(totals) >= Whole(limit) * cnt ELSE 0 >= limit

\* avg > limit, where avg = sum(totals) / cnt if cnt else 0
AvgOver(totals, cnt, limit) ==
    IF cnt # 0 THEN SumSeq(totals) > Whole(limit) * cnt ELSE 0 > limit

\* a variant in which every tier reached adds its amount
AvgTierStacked(totals, cnt) ==
    (IF AvgOver(totals, cnt, 150) THEN BONUS_AVG_150 ELSE 0)
        + (IF AvgOver(totals, cnt, 140) THEN BONUS_AVG_140 ELSE 0)
        + (IF AvgOver(totals, cnt, 130) THEN BONUS_AVG_130 ELSE 0)

\* the average tier of a day: its amount, 0 when no tier is reached
AvgTier(totals, cnt) ==
    IF AvgOver(totals, cnt, 150) THEN BONUS_AVG_150
    ELSE IF AvgOver(totals, cnt, 140) THEN BONUS_AVG_140
    ELSE IF AvgOver(totals, cnt, 130) THEN BONUS_AVG_130
    ELSE 0

\* one pass of the loop over the days of an employee
BonusDay(acc, emp, totals, cnt) ==
    LET a1 == TotalsLoop(acc, emp, totals)
    IN  IF AvgTier(totals, cnt) # 0
        THEN Award(a1, emp, CAT_AVG, AvgTier(totals, cnt))
        ELSE a1

\* the loop over the days of sales_data
RECURSIVE BonusLoop(_, _, _)
BonusLoop(acc, days, counts) ==
    IF days = <<>> THEN acc
    ELSE BonusLoop(BonusDay(acc, Head(days).emp, Head(days).totals,
                            CountOf(counts, Head(days).emp, Head(days).date)),
                   Tail(days), counts)

\* the loop over the data rows, up to the first exception
RECURSIVE ScanRows(_, _, _)
ScanRows(groups, cols, rows) ==
    IF rows = <<>> THEN [exc |-> "", groups |-> groups]
    ELSE LET r == ScanRow(groups, cols, Head(rows))
         IN  IF r.exc # "" THEN r ELSE ScanRows(r.groups, cols, Tail(rows))

Outcome(exc, totals_by_emp, cats_by_emp, stats, counts) ==
    [error |-> exc, bonuses |-> totals_by_emp, details |-> cats_by_emp,
     daily_totals |-> stats, transactions_count |-> counts]

\* analyze_workbook on the rows below a header with the column map cols: the
\* exception that ends it or what it returns
analyze_rows(cols, rows) ==
    LET scanned == ScanRows(<<>>, cols, rows)
        s == SumInvoices(Items(scanned.groups), <<>>, <<>>)
        acc == BonusLoop([bonuses |-> <<>>, details |-> <<>>],
                         Items(s.daily_totals), s.transactions_count)
    IN  IF scanned.exc # ""
        THEN Outcome(scanned.exc, <<>>, <<>>, <<>>, <<>>)
        ELSE Outcome("", acc.bonuses, acc.details, s.daily_totals,
                     s.transactions_count)

---------------------------------------------------------------------------
\* build_report_text

Line(sec, what, emp, label, x, y) ==
    [sec |-> sec, what |-> what, emp |-> emp, label |-> label, x |-> x, y |-> y]

Plain(sec, what) == Line(sec, what, NoneCell, "", 0, 0)

\* date.strftime('%d.%m')
DayMonth(date) ==
    IF date = Day1 THEN "15.01" ELSE IF date = Day2 THEN "16.01" ELSE "dd.mm"

\* a / b to two decimals, in hundredths (ties to even)
Ratio2(a, b) ==
    LET q == a \div b
        r == a % b
    IN  IF 2 * r > b \/ (2 * r = b /\ q % 2 = 1) THEN q + 1 ELSE q

RECURSIVE SummaryLines(_)
SummaryLines(totals_by_emp) ==
    IF totals_by_emp = <<>> THEN <<>>
    ELSE <<Line("summary", "entry", Head(totals_by_emp).emp, "",
                Whole(Head(totals_by_emp).amount), 0)>>
             \o SummaryLines(Tail(totals_by_emp))

RECURSIVE CatLines(_, _)
CatLines(emp, cats) ==
    IF cats = <<>> THEN <<>>
    ELSE <<Line("breakdown", "entry", emp, Head(cats).cat,
                Whole(Head(cats).amount), 0)>>
             \o CatLines(emp, Tail(cats))

RECURSIVE BreakdownLines(_)
BreakdownLines(cats_by_emp) ==
    IF cats_by_emp = <<>> THEN <<>>
    ELSE LET e == Head(cats_by_emp)
         IN  <<Line("breakdown", "employee", e.emp, "", 0, 0),
               Plain("breakdown", "rule")>>
                 \o CatLines(e.emp, e.cats)
                 \o <<Plain("breakdown", "blank")>>
                 \o BreakdownLines(Tail(cats_by_emp))

\* sorted(dates.items())
RECURSIVE SortByDate(_)
SortByDate(days) ==
    IF days = <<>> THEN <<>>
    ELSE LET j == CHOOSE j \in 1..Len(days) :
                      \A i \in 1..Len(days) : days[j].date <= days[i].date
         IN  <<days[j]>>
                 \o SortByDate(SubSeq(days, 1, j - 1)
                                   \o SubSeq(days, j + 1, Len(days)))

RECURSIVE DayLines(_, _)
DayLines(days, counts) ==
    IF days = <<>> THEN <<>>
    ELSE LET d == Head(days)
             total == SumSeq(d.totals)
             cnt == CountOf(counts, d.emp, d.date)
             avg == IF cnt # 0 THEN Ratio2(total, cnt) ELSE 0
         IN  <<Line("daily", "entry", d.emp, DayMonth(d.date), avg, total)>>
                 \o DayLines(Tail(days), counts)

RECURSIVE DailyLines(_, _, _)
DailyLines(stats, emps, counts) ==
    IF emps = <<>> THEN <<>>
    ELSE <<Line("daily", "employee", Head(emps), "", 0, 0),
           Plain("daily", "rule"), Plain("daily", "columns"),
           Plain("daily", "rule")>>
             \o DayLines(SortByDate(SelectSeq(stats,
                                              LAMBDA d : d.emp = Head(emps))),
                         counts)
             \o <<Plain("daily", "blank")>>
             \o DailyLines(stats, Tail(emps), counts)

build_report_text(totals_by_emp, cats_by_emp, stats, counts) ==
    <<Plain("summary", "title"), Plain("summary", "rule")>>
        \o SummaryLines(totals_by_emp)
        \o <<Plain("summary", "blank")>>
        \o BreakdownLines(cats_by_emp)
        \o DailyLines(stats, EmpOrder(stats, {}), counts)

---------------------------------------------------------------------------
\* The inputs of a direct call of calculate_transaction_bonuses

DirectAmounts == {Whole(130), Whole(141), Whole(150), 15001, Whole(750)}

SeqsUpTo(S, n) == UNION {[1..m -> S] : m \in 0..n}

\* one (employee, day) of sales_data with its transactions_count
DirectDays(n) ==
    {[emp |-> e, date |-> Day1 + n, totals |-> ts, cnt |-> c] :
        e \in {A, B}, ts \in SeqsUpTo(DirectAmounts, MaxTotals),
        c \in 0..MaxTotals}

---------------------------------------------------------------------------
\* The state machine

NoDay == [emp |-> NoneCell, date |-> 0, totals |-> <<>>, cnt |-> 0]

Init ==
    /\ pc = "start"
    /\ error = ""
    /\ scan = <<>>
    /\ header = <<>>
    /\ header_row = 0
    /\ col_idx = EmptyMap
    /\ data = <<>>
    /\ per_invoice = <<>>
    /\ daily_totals = <<>>
    /\ transactions_count = <<>>
    /\ k = 0
    /\ day = NoDay
    /\ bonuses = <<>>
    /\ details = <<>>
    /\ report = <<>>

\* a variant that counts the rows from 0
RowIdxFromZero(n) == n - 1

\* enumerate(sheet.iter_rows(values_only=True), start=1): the index of the
\* n-th row read
RowIdx(n) == n

\* analyze_workbook opens the workbook and calls find_header_row
OpenWorkbook ==
    /\ pc = "start"
    /\ pc' = "find_header"
    /\ UNCHANGED <<error, scan, header, header_row, col_idx, data, per_invoice,
                   daily_totals, transactions_count, k, day, bonuses,
                   details, report>>

\* find_header_row: one pass of its loop, on the next row of the sheet
ReadHeaderRow ==
    /\ pc = "find_header"
    /\ Len(scan) < MaxScan
    /\ \E row \in HeaderRowSet :
        /\ scan' = Append(scan, row)
        /\ IF IsHeader(RowColIdx(row), REQUIRED_COLS)
           THEN /\ header_row' = RowIdx(Len(scan) + 1)
                /\ col_idx' = RowColIdx(row)
                /\ header' = row
                /\ pc' = "found"
           ELSE UNCHANGED <<header, header_row, col_idx, pc>>
    /\ UNCHANGED <<error, data, per_invoice, daily_totals,
                   transactions_count, k, day, bonuses, details, report>>

\* find_header_row: the sheet has no further row
HeaderNotFound ==
    /\ pc = "find_header"
    /\ pc' = "error"
    /\ error' = "KeyError"
    /\ UNCHANGED <<scan, header, header_row, col_idx, data, per_invoice, daily_totals,
                   transactions_count, k, day, bonuses, details, report>>

\* if QUANTITY_COL_NAME not in col_idx: col_idx[QUANTITY_COL_NAME] = None
WithQuantity(cols) ==
    IF QUANTITY_COL_NAME \in DOMAIN cols THEN cols
    ELSE [x \in (DOMAIN cols) \cup {QUANTITY_COL_NAME} |->
             IF x = QUANTITY_COL_NAME THEN NoCol ELSE cols[x]]

\* analyze_workbook between find_header_row and the loop over the data rows;
\* the iterator of find_header_row is gone
StartScan ==
    /\ pc = "found"
    /\ scan' = <<>>
    /\ col_idx' = WithQuantity(col_idx)
    /\ per_invoice' = <<>>
    /\ transactions_count' = <<>>
    /\ daily_totals' = <<>>
    /\ pc' = "rows"
    /\ UNCHANGED <<error, header, header_row, data, k, day, bonuses, details,
                   report>>

\* analyze_workbook: one pass of the loop over the rows below the header
ReadDataRow ==
    /\ pc = "rows"
    /\ Len(data) < MaxRows
    /\ \E rec \in RecSet :
        LET row == Layout(header, rec)
            r == ScanRow(per_invoice, col_idx, row)
        IN  /\ data' = Append(data, row)
            /\ IF r.exc # ""
               THEN /\ pc' = "error"
                    /\ error' = r.exc
                    /\ UNCHANGED per_invoice
               ELSE /\ per_invoice' = r.groups
                    /\ UNCHANGED <<pc, error>>
    /\ UNCHANGED <<scan, header, header_row, col_idx, daily_totals,
                   transactions_count, k, day, bonuses, details, report>>

\* analyze_workbook: the sheet has no further row; the loop over per_invoice,
\* then the call of calculate_transaction_bonuses
EndOfRows ==
    /\ pc = "rows"
    /\ LET s == SumInvoices(Items(per_invoice), <<>>, <<>>)
       IN  /\ daily_totals' = s.daily_totals
           /\ transactions_count' = s.transactions_count
    /\ bonuses' = <<>>
    /\ details' = <<>>
    /\ k' = 0
    /\ pc' = "bonus"
    /\ UNCHANGED <<error, scan, header, header_row, col_idx, data, per_invoice, day,
                   report>>

\* the (employee, day) calculate_transaction_bonuses visits next
NextDay ==
    LET d == Items(daily_totals)[k + 1]
    IN  [emp |-> d.emp, date |-> d.date, totals |-> d.totals,
         cnt |-> CountOf(transactions_count, d.emp, d.date)]

\* calculate_transaction_bonuses: one pass of the loop over the days
VisitDay ==
    /\ pc = "bonus"
    /\ k < Len(daily_totals)
    /\ LET acc == BonusDay([bonuses |-> bonuses, details |-> details],
                           NextDay.emp, NextDay.totals, NextDay.cnt)
       IN  /\ day' = NextDay
           /\ bonuses' = acc.bonuses
           /\ details' = acc.details
    /\ k' = k + 1
    /\ UNCHANGED <<pc, error, scan, header, header_row, col_idx, data,
                   per_invoice, daily_totals, transactions_count, report>>

\* calculate_transaction_bonuses returns to analyze_workbook, which returns
ReturnBonuses ==
    /\ pc = "bonus"
    /\ k = Len(daily_totals)
    /\ pc' = "analyzed"
    /\ UNCHANGED <<error, scan, header, header_row, col_idx, data,
                   per_invoice, daily_totals, transactions_count, k, day,
                   bonuses, details, report>>

\* main renders the results of analyze_workbook
BuildReport ==
    /\ pc = "analyzed"
    /\ report' = build_report_text(bonuses, details, daily_totals,
                                   transactions_count)
    /\ pc' = "done"
    /\ UNCHANGED <<error, scan, header, header_row, col_idx, data, per_invoice,
                   daily_totals, transactions_count, k, day, bonuses,
                   details>>

Next ==
    \/ OpenWorkbook
    \/ ReadHeaderRow
    \/ HeaderNotFound
    \/ StartScan
    \/ ReadDataRow
    \/ EndOfRows
    \/ VisitDay
    \/ ReturnBonuses
    \/ BuildReport

Spec == Init /\ [][Next]_vars

---------------------------------------------------------------------------
\* calculate_transaction_bonuses called on its own, on any sales_data and
\* transactions_count: the loop visits the (employee, day) pairs one by one

InitDirect ==
    /\ pc = "direct"
    /\ error = ""
    /\ scan = <<>>
    /\ header = <<>>
    /\ header_row = 0
    /\ col_idx = EmptyMap
    /\ data = <<>>
    /\ per_invoice = <<>>
    /\ daily_totals = <<>>
    /\ transactions_count = <<>>
    /\ k = 0
    /\ day = NoDay
    /\ bonuses = <<>>
    /\ details = <<>>
    /\ report = <<>>

\* one pass of the loop over the days, on the next (employee, day) of
\* sales_data; the days of an employee follow each other
VisitDirectDay ==
    /\ pc = "direct"
    /\ k < MaxDirectDays
    /\ \E d \in DirectDays(k) :
        /\ ~(day.emp = B /\ d.emp = A)
        /\ LET acc == BonusDay([bonuses |-> bonuses, details |-> details],
                               d.emp, d.totals, d.cnt)
           IN  /\ day' = d
               /\ bonuses' = acc.bonuses
               /\ details' = acc.details
    /\ k' = k + 1
    /\ UNCHANGED <<pc, error, scan, header, header_row, col_idx, data,
                   per_invoice, daily_totals, transactions_count, report>>

\* sales_data has no further day: calculate_transaction_bonuses returns
ReturnDirect ==
    /\ pc = "direct"
    /\ pc' = "returned"
    /\ UNCHANGED <<error, scan, header, header_row, col_idx, data,
                   per_invoice, daily_totals, transactions_count, k, day,
                   bonuses, details, report>>

NextDirect ==
    \/ VisitDirectDay
    \/ ReturnDirect

SpecDirect == InitDirect /\ [][NextDirect]_vars

---------------------------------------------------------------------------
\* What the claims speak of

\* cell c of the row holds the label, once trimmed
HoldsLabel(row, c, label) ==
    /\ c \in 1..Len(row)
    /\ row[c].kind = "str"
    /\ Strip(row[c].s) = label

\* the row contains every required label
HasAllLabels(row) ==
    \A j \in 1..Len(REQUIRED_COLS) :
        \E c \in 1..Len(row) : HoldsLabel(row, c, REQUIRED_COLS[j])

NoResults ==
    /\ bonuses = <<>>
    /\ details = <<>>
    /\ daily_totals = <<>>
    /\ transactions_count = <<>>
    /\ report = <<>>

\* C1: when row k of the sheet contains every required label (trimmed, among
\* other columns) and no earlier row does, find_header_row returns k and a
\* column map that sends every required label to a column of row k holding
\* that label; it returns for no other row
C1_HeaderRowFound ==
    /\ (\E n \in 1..Len(scan) : HasAllLabels(scan[n])) => pc = "found"
    /\ pc = "found" =>
        /\ header_row \in 1..Len(scan)
        /\ HasAllLabels(scan[header_row])
        /\ \A n \in 1..(header_row - 1) : ~HasAllLabels(scan[n])
        /\ \A j \in 1..Len(REQUIRED_COLS) :
            /\ REQUIRED_COLS[j] \in DOMAIN col_idx
            /\ HoldsLabel(scan[header_row], col_idx[REQUIRED_COLS[j]] + 1,
                          REQUIRED_COLS[j])

\* the header is the second row, its labels padded with blanks and mixed with
\* other columns
C1_Witness ==
    /\ pc = "found"
    /\ header_row = 2
    /\ scan[2] = H_messy
    /\ col_idx[<<"date">>] = 4

\* C2: when no row of the sheet (an empty sheet included) contains every
\* required label, the run ends in the header-not-found error and yields no
\* bonus totals, breakdowns or daily stats; the error is never raised when a
\* row contains them all, and only then does the analysis go on
C2_HeaderNotFound ==
    /\ (pc = "error" /\ error = "KeyError") =>
        /\ \A n \in 1..Len(scan) : ~HasAllLabels(scan[n])
        /\ NoResults
    /\ (\E n \in 1..Len(scan) : HasAllLabels(scan[n])) => error # "KeyError"
    /\ (pc = "find_header" /\ \A n \in 1..Len(scan) : ~HasAllLabels(scan[n]))
           => ENABLED HeaderNotFound
    /\ pc \notin {"start", "find_header", "error"} => HasAllLabels(header)

\* a sheet whose only rows are a title and a row with three of the four labels
C2_Witness ==
    /\ pc = "error"
    /\ error = "KeyError"
    /\ scan = <<H_title, H_partial>>
    /\ NoResults

\* the column of the sheet that carries the label (the last one that does),
\* 0 when the sheet has none
SheetCol(label) ==
    IF \E c \in 1..Len(header) : HoldsLabel(header, c, label)
    THEN CHOOSE c \in 1..Len(header) :
             /\ HoldsLabel(header, c, label)
             /\ \A c2 \in (c + 1)..Len(header) : ~HoldsLabel(header, c2, label)
    ELSE 0

\* the cell of a row in column c, empty when the sheet has no such column
Cell(row, c) == IF c = 0 THEN NoneCell ELSE row[c]

\* the row has a date, an employee and a unit price
Contributes(emp, date, unit) ==
    date.tag = "date" /\ Truthy(emp) /\ unit.kind # "none"

\* the quantity of a line item: 1 when the sheet has no quantity column or
\* the cell is empty or falsy, the cell's value otherwise
QtyOf(cell) == IF Truthy(cell) THEN cell.v ELSE Whole(1)

\* the columns of the sheet by label
SheetCols ==
    [inv |-> SheetCol(<<"invoice">>), emp |-> SheetCol(<<"employee">>),
     date |-> SheetCol(<<"date">>), unit |-> SheetCol(<<"unit_price">>),
     qty |-> SheetCol(QUANTITY_COL_NAME)]

\* what a row of the sheet is as a line item: amount is unit price x quantity
LineItem(row, cs) ==
    LET date == NormalizeDate(Cell(row, cs.date))
    IN  [ok |-> Contributes(Cell(row, cs.emp), date, Cell(row, cs.unit)),
         emp |-> Cell(row, cs.emp),
         date |-> date.date,
         tag |-> date.tag,
         invoice |-> Cell(row, cs.inv),
         unit |-> Cell(row, cs.unit),
         qty |-> QtyOf(Cell(row, cs.qty)),
         amount |-> (Cell(row, cs.unit).v * QtyOf(Cell(row, cs.qty))) \div 100]

\* the rows of the sheet below the header as line items
LineItems ==
    LET cs == SheetCols
    IN  [i \in 1..Len(data) |-> LineItem(data[i], cs)]

\* the line items of employee e on date d
RowsOf(items, e, d) ==
    {i \in 1..Len(items) : items[i].ok /\ items[i].emp = e /\ items[i].date = d}

\* the sum of unit price x quantity over the line items of (e, d, inv) among
\* the rows i..Len(items)
RECURSIVE InvoiceTotal(_, _, _, _, _)
InvoiceTotal(items, i, e, d, inv) ==
    IF i > Len(items) THEN 0
    ELSE (IF /\ items[i].ok
             /\ items[i].emp = e
             /\ items[i].date = d
             /\ items[i].invoice = inv
          THEN items[i].amount ELSE 0)
             + InvoiceTotal(items, i + 1, e, d, inv)

InvoicesOf(items, e, d) == {items[i].invoice : i \in RowsOf(items, e, d)}

\* every (employee, date) of a line item or of the statistics
StatPairs(items) ==
    {<<items[i].emp, items[i].date>> :
        i \in {n \in 1..Len(items) : items[n].ok}}
    \cup {<<daily_totals[j].emp, daily_totals[j].date>> :
             j \in 1..Len(daily_totals)}
    \cup {<<transactions_count[j].emp, transactions_count[j].date>> :
             j \in 1..Len(transactions_count)}

TotalsEntries(e, d) ==
    {j \in 1..Len(daily_totals) :
        daily_totals[j].emp = e /\ daily_totals[j].date = d}

CountEntries(e, d) ==
    {j \in 1..Len(transactions_count) :
        transactions_count[j].emp = e /\ transactions_count[j].date = d}

\* the totals ts hold one entry per invoice of (e, d), each the invoice's sum
OnePerInvoice(items, ts, e, d) ==
    LET invs == InvoicesOf(items, e, d)
        sum == [inv \in invs |-> InvoiceTotal(items, 1, e, d, inv)]
    IN  /\ Len(ts) = Cardinality(invs)
        /\ \A inv \in invs :
            Cardinality({j \in 1..Len(ts) : ts[j] = sum[inv]})
                = Cardinality({x \in invs : sum[x] = sum[inv]})

\* analyze_workbook has returned its results
Analyzed == pc = "analyzed"

\* C3: after analyze_workbook, the transaction totals of every employee e and
\* date d hold exactly one entry per distinct invoice id among the line items
\* of (e, d), equal to the sum of unit price x quantity over the line items of
\* that invoice, and the transaction count of (e, d) is the length of the list
C3_OneTotalPerInvoice ==
    Analyzed =>
        LET items == LineItems
        IN  \A p \in StatPairs(items) :
                IF RowsOf(items, p[1], p[2]) = {}
                THEN /\ TotalsEntries(p[1], p[2]) = {}
                     /\ CountEntries(p[1], p[2]) = {}
                ELSE /\ Cardinality(TotalsEntries(p[1], p[2])) = 1
                     /\ Cardinality(CountEntries(p[1], p[2])) = 1
                     /\ \A j \in TotalsEntries(p[1], p[2]) :
                         /\ OnePerInvoice(items, daily_totals[j].totals,
                                          p[1], p[2])
                         /\ CountOf(transactions_count, p[1], p[2])
                                = Len(daily_totals[j].totals)

\* an invoice of two line items and an invoice of one, of the same employee
\* and day, beside a line item of another employee and day
C3_Witness ==
    /\ pc = "analyzed"
    /\ Len(data) = 3
    /\ Len(daily_totals) = 2
    /\ \E j \in 1..2 :
        /\ Len(daily_totals[j].totals) = 1
        /\ Cardinality(RowsOf(LineItems, daily_totals[j].emp,
                               daily_totals[j].date)) = 2

\* the rows without the i-th
WithoutRow(rows, i) == SubSeq(rows, 1, i - 1) \o SubSeq(rows, i + 1, Len(rows))

\* the row is one the scan skips: its date fails to normalize, its employee
\* is missing or its unit price is missing
Skipped(item) ==
    item.tag = "none" \/ ~Truthy(item.emp) \/ item.unit.kind = "none"

\* C4: a data row whose date fails to normalize, whose employee is missing or
\* whose unit price is missing is skipped without aborting the run: what
\* analyze_workbook yields is what it yields for the sheet without that row
C4_SkippedRowLeavesNoTrace ==
    (pc = "analyzed" \/ (pc = "error" /\ error # "KeyError")) =>
        LET items == LineItems
        IN  \A i \in 1..Len(data) :
                Skipped(items[i]) =>
                    analyze_rows(col_idx, WithoutRow(data, i))
                        = Outcome(error, bonuses, details, daily_totals,
                                  transactions_count)

\* the total bonus of an employee, 0 without an entry
BonusOf(totals_by_emp, e) ==
    IF \E j \in 1..Len(totals_by_emp) : totals_by_emp[j].emp = e
    THEN LET j == CHOOSE j \in 1..Len(totals_by_emp) : totals_by_emp[j].emp = e
         IN  totals_by_emp[j].amount
    ELSE 0

\* the amount of a category of an employee, 0 without an entry
CatOf(cats_by_emp, e, cat) ==
    IF \E j \in 1..Len(cats_by_emp) :
           /\ cats_by_emp[j].emp = e
           /\ \E c \in 1..Len(cats_by_emp[j].cats) :
                  cats_by_emp[j].cats[c].cat = cat
    THEN LET j == CHOOSE j \in 1..Len(cats_by_emp) : cats_by_emp[j].emp = e
             c == CHOOSE c \in 1..Len(cats_by_emp[j].cats) :
                      cats_by_emp[j].cats[c].cat = cat
         IN  cats_by_emp[j].cats[c].amount
    ELSE 0

\* C5: every transaction total t of the day visited counts on its own: t > 700
\* adds 20 to the over-400 category, 10 to the over-700 category and both to
\* the employee's total; 400 < t <= 700 adds the 20 only; t <= 400 adds
\* nothing (the rest of what the total grows by is the average tier's)
C5_TransactionThresholds ==
    [][k' = k + 1 =>
        LET e == day'.emp
            ts == day'.totals
            n700 == Cardinality({j \in 1..Len(ts) : ts[j] > Whole(700)})
            n400 == Cardinality({j \in 1..Len(ts) :
                        ts[j] > Whole(400) /\ ts[j] <= Whole(700)})
        IN  /\ CatOf(details', e, CAT_400) - CatOf(details, e, CAT_400)
                   = 20 * (n700 + n400)
            /\ CatOf(details', e, CAT_700) - CatOf(details, e, CAT_700)
                   = 10 * n700
            /\ (BonusOf(bonuses', e) - BonusOf(bonuses, e))
                   - (CatOf(details', e, CAT_AVG) - CatOf(details, e, CAT_AVG))
                   = 30 * n700 + 20 * n400
    ]_vars

\* a transaction of 750 has earned A 20 and 10, one of 500 has earned B 20
C5_Witness ==
    /\ pc = "bonus"
    /\ k = 2
    /\ \E j \in 1..2 : daily_totals[j].totals = <<Whole(750)>>
    /\ \E j \in 1..2 : daily_totals[j].totals = <<Whole(500)>>
    /\ CatOf(details, A, CAT_400) = 20
    /\ CatOf(details, A, CAT_700) = 10
    /\ CatOf(details, B, CAT_400) = 20
    /\ CatOf(details, B, CAT_700) = 0

\* the average tier of a day with the totals ts and the count cnt
TierOf(ts, cnt) ==
    IF cnt = 0 THEN 0
    ELSE IF SumSeq(ts) > 15000 * cnt THEN 35
    ELSE IF SumSeq(ts) > 14000 * cnt THEN 25
    ELSE IF SumSeq(ts) > 13000 * cnt THEN 20
    ELSE 0

\* C6: the day visited adds exactly one average-tier amount, that of the
\* highest tier its average sum(totals) / count is strictly above (35 above
\* 150, 25 above 140, 20 above 130), and none when the count is 0 or the
\* average is at most 130; an average of exactly 150 or 141 earns 25, one of
\* 150.01 earns 35; no error is raised
C6_AverageTier ==
    [][k' = k + 1 =>
        LET e == day'.emp
            ts == day'.totals
            cnt == day'.cnt
            tier == CatOf(details', e, CAT_AVG) - CatOf(details, e, CAT_AVG)
        IN  /\ tier = TierOf(ts, cnt)
            /\ (BonusOf(bonuses', e) - BonusOf(bonuses, e))
                   = tier
                     + (CatOf(details', e, CAT_400) - CatOf(details, e, CAT_400))
                     + (CatOf(details', e, CAT_700) - CatOf(details, e, CAT_700))
            /\ (cnt = 1 /\ ts = <<15000>>) => tier = 25
            /\ (cnt = 1 /\ ts = <<14100>>) => tier = 25
            /\ (cnt = 1 /\ ts = <<15001>>) => tier = 35
            /\ cnt = 0 => tier = 0
            /\ error' = ""
    ]_vars

\* a day whose one transaction is of exactly 150 has earned 25
C6_Witness ==
    /\ pc = "direct"
    /\ k = 1
    /\ day.totals = <<Whole(150)>>
    /\ day.cnt = 1
    /\ CatOf(details, day.emp, CAT_AVG) = 25
    /\ BonusOf(bonuses, day.emp) = 25

\* the line items of the end-to-end example
ExampleItems ==
    <<Rec(Num(Whole(1)), A, DateTime(Day1, 630), Num(Whole(100)), Num(Whole(2))),
      Rec(Num(Whole(1)), A, DateTime(Day1, 660), Num(Whole(50)), Num(Whole(1))),
      Rec(Num(Whole(2)), A, DateTime(Day1, 0), Num(Whole(800)), Num(Whole(1)))>>

\* the sheet below the header is the example
IsExample ==
    /\ SheetCol(QUANTITY_COL_NAME) # 0
    /\ data = [j \in 1..3 |-> Layout(header, ExampleItems[j])]

\* C7: for employee A and one day with invoice 1 of the line items (100 x 2)
\* and (50 x 1) and invoice 2 of the line item (800 x 1), analyze_workbook
\* yields the count 2, the totals [250, 800], an average bonus of 35, an
\* over-400 bonus of 20, an over-700 bonus of 10 and the total bonus 65
C7_EndToEnd ==
    (pc = "analyzed" /\ IsExample) =>
        /\ transactions_count = <<[emp |-> A, date |-> Day1, cnt |-> 2]>>
        /\ daily_totals = <<[emp |-> A, date |-> Day1,
                             totals |-> <<Whole(250), Whole(800)>>]>>
        /\ CatOf(details, A, CAT_AVG) = 35
        /\ CatOf(details, A, CAT_400) = 20
        /\ CatOf(details, A, CAT_700) = 10
        /\ bonuses = <<[emp |-> A, amount |-> 65]>>

\* the example has been analyzed
C7_Witness ==
    /\ pc = "analyzed"
    /\ IsExample
    /\ header = H_std
    /\ BonusOf(bonuses, A) = 65

\* C8: every employee with a day-by-day table in the report has exactly one
\* line of the summary section, and it carries the employee's total bonus
C8_SummaryListsEveryEmployee ==
    pc = "done" =>
        \A j \in 1..Len(report) :
            (report[j].sec = "daily" /\ report[j].what = "employee") =>
                /\ Cardinality({i \in 1..Len(report) :
                       /\ report[i].sec = "summary"
                       /\ report[i].what = "entry"
                       /\ report[i].emp = report[j].emp}) = 1
                /\ \A i \in 1..Len(report) :
                       (/\ report[i].sec = "summary"
                        /\ report[i].what = "entry"
                        /\ report[i].emp = report[j].emp)
                           => report[i].x
                                  = Whole(BonusOf(bonuses, report[j].emp))

\* C9: normalizing the date of a row never raises: it yields a date or a
\* failure, and the run never ends in an error of a data row
C9_DateNeverRaises ==
    /\ \A i \in 1..Len(data) : LineItems[i].tag \in {"date", "none"}
    /\ pc = "error" => error = "KeyError"

\* the sum of all lines of per_invoice
RECURSIVE LinesTotal(_)
LinesTotal(groups) ==
    IF groups = <<>> THEN 0
    ELSE SumSeq(Head(groups).lines) + LinesTotal(Tail(groups))

\* C10: the quantity of a line item is 1 when the header has no quantity
\* column or the row's quantity cell is empty or falsy (0 included) and the
\* cell's value otherwise; the line appended for the row is unit price x that
\* quantity
C10_QuantityDefault ==
    [][(pc = "rows" /\ Len(data') = Len(data) + 1 /\ pc' = "rows") =>
        LET row == data'[Len(data')]
            cs == SheetCols
            item == LineItem(row, cs)
            qcell == Cell(row, cs.qty)
            qty == IF cs.qty = 0 THEN Whole(1)
                   ELSE IF qcell.kind = "none" \/ qcell.v = 0 THEN Whole(1)
                   ELSE qcell.v
            amount == (item.unit.v * qty) \div 100
        IN  IF item.ok
            THEN /\ \E j \in 1..Len(per_invoice') :
                        /\ per_invoice'[j].emp = item.emp
                        /\ per_invoice'[j].date = item.date
                        /\ per_invoice'[j].invoice = item.invoice
                        /\ per_invoice'[j].lines[Len(per_invoice'[j].lines)]
                               = amount
                 /\ LinesTotal(per_invoice') = LinesTotal(per_invoice) + amount
            ELSE per_invoice' = per_invoice
    ]_vars

\* a line item of 750 with the quantity 0 counts 750, one of 500 with an
\* empty quantity cell counts 500
C10_Witness ==
    /\ pc = "rows"
    /\ SheetCol(QUANTITY_COL_NAME) # 0
    /\ Len(data) = 2
    /\ Cell(data[1], SheetCol(QUANTITY_COL_NAME)) = Num(0)
    /\ Cell(data[2], SheetCol(QUANTITY_COL_NAME)) = NoneCell
    /\ Len(per_invoice) = 2
    /\ per_invoice[1].lines = <<Whole(750)>>
    /\ per_invoice[2].lines = <<Whole(500)>>

\* the employees with an entry
EntriesOf(by_emp) == {by_emp[j].emp : j \in 1..Len(by_emp)}

\* the totals and the breakdown agree: the same employees have an entry, one
\* each, the categories of an entry are among the three, one each, and the
\* total of an employee is the sum of the category amounts
Agree(totals_by_emp, cats_by_emp) ==
    /\ EntriesOf(totals_by_emp) = EntriesOf(cats_by_emp)
    /\ Cardinality(EntriesOf(totals_by_emp)) = Len(totals_by_emp)
    /\ Cardinality(EntriesOf(cats_by_emp)) = Len(cats_by_emp)
    /\ \A j \in 1..Len(cats_by_emp) :
           LET cats == cats_by_emp[j].cats
           IN  /\ cats # <<>>
               /\ \A c \in 1..Len(cats) : cats[c].cat \in {CAT_400, CAT_700, CAT_AVG}
               /\ \A c, c2 \in 1..Len(cats) : cats[c].cat = cats[c2].cat => c = c2
    /\ \A e \in EntriesOf(totals_by_emp) :
           BonusOf(totals_by_emp, e)
               = CatOf(cats_by_emp, e, CAT_400) + CatOf(cats_by_emp, e, CAT_700)
                 + CatOf(cats_by_emp, e, CAT_AVG)

====
